---- MODULE Spec2Model ----
(***************************************************************************)
(* A model of streamlit_ohlcv_excel.py: the ticker-list parser, the symbol *)
(* mapper, the bulk-response slicer, the OHLCV normalizer and the pipeline *)
(* download_and_write_excel with the button handler that calls it.         *)
(*                                                                         *)
(* Python strings are sequences of one-character strings, so that upper(), *)
(* strip(), endswith(), re.sub() and slicing are computed, not assumed.    *)
(***************************************************************************)
EXTENDS Integers, Sequences, FiniteSets, TLC

VARIABLES
    txt,              \* the text of the ticker-list page, stripped (line 21)
    suffix,           \* YF_SUFFIX (line 16)
    pc,               \* the position of the run
    lst,              \* get_egx_tickers' local lst
    triedFallback,    \* history: the except branch (lines 28-30) was entered
    err,              \* the exception that ended the run, "" when none
    original_tickers, \* line 77
    pairs,            \* line 78
    fetchCalls,       \* history: the argument of every yf.download call
    data,             \* line 83
    i,                \* the index of the loop of line 98 (next pair to process)
    summary_rows,     \* line 95
    skipped,          \* line 96
    sheets,           \* the writer's workbook: the writes each sheet received
    ret,              \* what download_and_write_excel returned (line 138)
    ui,               \* what the button handler rendered (lines 145-161)
    sdf, ssym,        \* the slicer's arguments, as one logical table in
    sliceOuter,       \*   the symbol-major arrangement,
    sliceInner,       \*   the field-major arrangement,
    sliceFlat,        \*   and the flat arrangement
    nin, ndf, nstep   \* the normalizer's argument, its frame df_t and its position

parseVars == <<txt, pc, lst, triedFallback, err, original_tickers>>
pipeVars  == <<suffix, pairs, fetchCalls, data, i, summary_rows, skipped, sheets, ret, ui>>
sliceVars == <<sdf, ssym, sliceOuter, sliceInner, sliceFlat>>
normVars  == <<nin, ndf, nstep>>
vars == <<parseVars, pipeVars, sliceVars, normVars>>

(***************************************************************************)
(* Bounds of the model.                                                    *)
(***************************************************************************)
\* the longest element list of a ticker-list text
MaxElems == 3
\* the longest ticker list a pipeline run processes
MaxTickers == 3
\* the most rows of a series handed to the normalizer
MaxRows == 2

(***************************************************************************)
(* Python str operations.                                                  *)
(***************************************************************************)
LowerLetters == <<"a","b","c","d","e","f","g","h","i","j","k","l","m",
                  "n","o","p","q","r","s","t","u","v","w","x","y","z">>
UpperLetters == <<"A","B","C","D","E","F","G","H","I","J","K","L","M",
                  "N","O","P","Q","R","S","T","U","V","W","X","Y","Z">>
DigitChars == <<"0","1","2","3","4","5","6","7","8","9">>

IndexIn(c, seq) == IF \E k \in 1..Len(seq) : seq[k] = c
                   THEN CHOOSE k \in 1..Len(seq) : seq[k] = c
                   ELSE 0

\* the code point of a character (ASCII)
Ord(c) ==
    IF IndexIn(c, UpperLetters) > 0 THEN 64 + IndexIn(c, UpperLetters)
    ELSE IF IndexIn(c, LowerLetters) > 0 THEN 96 + IndexIn(c, LowerLetters)
    ELSE IF IndexIn(c, DigitChars) > 0 THEN 47 + IndexIn(c, DigitChars)
    ELSE CASE c = " " -> 32 [] c = "'" -> 39 [] c = "*" -> 42
           [] c = "." -> 46 [] c = "/" -> 47 [] c = ":" -> 58
           [] c = "?" -> 63 [] c = "[" -> 91 [] c = "\\" -> 92
           [] c = "]" -> 93 [] c = "_" -> 95

UpperChar(c) == IF IndexIn(c, LowerLetters) > 0
                THEN UpperLetters[IndexIn(c, LowerLetters)] ELSE c
LowerChar(c) == IF IndexIn(c, UpperLetters) > 0
                THEN LowerLetters[IndexIn(c, UpperLetters)] ELSE c

\* str.upper() and str.lower()
Upper(s) == [k \in 1..Len(s) |-> UpperChar(s[k])]
Lower(s) == [k \in 1..Len(s) |-> LowerChar(s[k])]

Whitespace == {" "}

RECURSIVE LStrip(_)
LStrip(s) == IF s = <<>> THEN s
             ELSE IF Head(s) \in Whitespace THEN LStrip(Tail(s)) ELSE s
RECURSIVE RStrip(_)
RStrip(s) == IF s = <<>> THEN s
             ELSE IF s[Len(s)] \in Whitespace THEN RStrip(SubSeq(s, 1, Len(s) - 1))
             ELSE s
\* str.strip()
Strip(s) == RStrip(LStrip(s))

\* str.endswith()
EndsWith(s, suf) == /\ Len(suf) <= Len(s)
                    /\ SubSeq(s, Len(s) - Len(suf) + 1, Len(s)) = suf

\* Python's order on str: by code point, a proper prefix first
RECURSIVE StrLess(_, _)
StrLess(a, b) ==
    IF b = <<>> THEN FALSE
    ELSE IF a = <<>> THEN TRUE
    ELSE IF Head(a) = Head(b) THEN StrLess(Tail(a), Tail(b))
    ELSE Ord(Head(a)) < Ord(Head(b))

\* sorted() of a set of str
RECURSIVE SortedStrs(_)
SortedStrs(S) ==
    IF S = {} THEN <<>>
    ELSE LET m == CHOOSE x \in S : \A y \in S \ {x} : StrLess(x, y)
         IN  <<m>> \o SortedStrs(S \ {m})

\* str() of a non-negative int
RECURSIVE IntStr(_)
IntStr(n) == IF n < 10 THEN <<DigitChars[n + 1]>>
             ELSE IntStr(n \div 10) \o <<DigitChars[(n % 10) + 1]>>

Range(seq) == {seq[k] : k \in 1..Len(seq)}

(***************************************************************************)
(* The ticker-list text and the three library calls that read it.  A text  *)
(* is one of the shapes the page can have, with the elements it lists:     *)
(*   py_list      ['AAA', "bbb", 7]       a Python list literal            *)
(*   py_dict_list {'tickers': ['AAA']}    a Python literal that is no list *)
(*                                        and holds a bracketed span       *)
(*   py_tuple     ('AAA', 'BBB')          a Python literal, no bracket     *)
(*   html_sq      <pre>['AAA','BBB']</pre>  markup around a single-quoted  *)
(*   html_dq      <pre>["AAA","BBB"]</pre>  or double-quoted array         *)
(*   html_bad     <a>[AAA, BBB]</a>       a bracketed span that is no JSON *)
(*   no_bracket   hello                   neither                          *)
(*   empty                                the empty text                   *)
(***************************************************************************)
StrElem(s) == [tag |-> "str", s |-> s, n |-> 0]
IntElem(n) == [tag |-> "int", s |-> <<>>, n |-> n]

\* str(t) of an element
PyStr(t) == IF t.tag = "str" THEN t.s ELSE IntStr(t.n)

ElemForms == {"py_list", "py_dict_list", "html_sq", "html_dq"}
BareForms == {"py_tuple", "html_bad", "no_bracket", "empty"}

\* ast.literal_eval(txt): raises, or the value of the literal
literal_eval(t) ==
    CASE t.form = "py_list" -> [kind |-> "list", val |-> t.elems]
      [] t.form \in {"py_dict_list", "py_tuple"} -> [kind |-> "other", val |-> <<>>]
      [] OTHER -> [kind |-> "raise", val |-> <<>>]

\* re.search(r"\[.*\]", txt, re.S): whether the text holds a bracketed span
re_search(t) == t.form \in {"py_list", "py_dict_list", "html_sq", "html_dq", "html_bad"}

\* json.loads(m.group(0).replace("'", '"')): raises, or the array
json_loads(t) ==
    IF t.form \in {"py_list", "py_dict_list", "html_sq", "html_dq"}
    THEN [kind |-> "list", val |-> t.elems]
    ELSE [kind |-> "raise", val |-> <<>>]

\* a faulty variant of line 33 that forgets strip() on the kept elements
PostProcessNoStrip(l) ==
    SortedStrs({Upper(PyStr(l[k])) : k \in {j \in 1..Len(l) : Strip(PyStr(l[j])) # <<>>}})

\* line 33: sorted({str(t).upper().strip() for t in lst if str(t).strip()})
PostProcess(l) ==
    SortedStrs({Strip(Upper(PyStr(l[k]))) : k \in {j \in 1..Len(l) : Strip(PyStr(l[j])) # <<>>}})

(***************************************************************************)
(* get_egx_tickers, statement by statement.                                *)
(***************************************************************************)
\* a variant of lines 23-27 that sends a value that is no list to the
\* except branch as well
StrictParseNonListFallsBack ==
    /\ pc = "strict"
    /\ LET r == literal_eval(txt)
       IN  IF r.kind # "list"
           THEN /\ pc' = "fallback"
                /\ lst' = <<>>
           ELSE /\ pc' = "check"
                /\ lst' = r.val
    /\ UNCHANGED <<txt, triedFallback, err, original_tickers>>
    /\ UNCHANGED <<pipeVars, sliceVars, normVars>>

\* lines 23-27: the strict parse; a value that is no list becomes []
StrictParse ==
    /\ pc = "strict"
    /\ LET r == literal_eval(txt)
       IN  IF r.kind = "raise"
           THEN /\ pc' = "fallback"
                /\ lst' = <<>>
           ELSE /\ pc' = "check"
                /\ lst' = IF r.kind = "list" THEN r.val ELSE <<>>
    /\ UNCHANGED <<txt, triedFallback, err, original_tickers>>
    /\ UNCHANGED <<pipeVars, sliceVars, normVars>>

\* lines 27-30: the except branch; json.loads may raise out of it
Fallback ==
    /\ pc = "fallback"
    /\ triedFallback' = TRUE
    /\ IF re_search(txt)
       THEN LET r == json_loads(txt)
            IN  IF r.kind = "raise"
                THEN /\ pc' = "error"
                     /\ err' = "JSONDecodeError"
                     /\ lst' = lst
                ELSE /\ pc' = "check"
                     /\ err' = err
                     /\ lst' = r.val
       ELSE /\ pc' = "check"
            /\ UNCHANGED <<err, lst>>
    /\ UNCHANGED <<txt, original_tickers>>
    /\ UNCHANGED <<pipeVars, sliceVars, normVars>>

\* lines 31-33
CheckAndReturn ==
    /\ pc = "check"
    /\ IF lst = <<>>
       THEN /\ pc' = "error"
            /\ err' = "Ticker list parsing failed or returned empty."
            /\ UNCHANGED original_tickers
       ELSE /\ pc' = "parsed"
            /\ original_tickers' = PostProcess(lst)
            /\ UNCHANGED err
    /\ UNCHANGED <<txt, lst, triedFallback>>
    /\ UNCHANGED <<pipeVars, sliceVars, normVars>>

ParseNext ==
    \/ StrictParse
    \/ Fallback
    \/ CheckAndReturn

(***************************************************************************)
(* Data frames.  A frame has an index (the dates) with its name, an        *)
(* ordered list of column keys and one value list per column.  The keys of *)
(* a flat frame are names; the keys of a two-level frame are pairs         *)
(* <<level 0, level 1>>.  "none" is Python's None.                         *)
(***************************************************************************)
\* pd.NA / NaN (line 70)
NA == -1

Open == <<"O","p","e","n">>
High == <<"H","i","g","h">>
Low == <<"L","o","w">>
Close == <<"C","l","o","s","e">>
AdjClose == <<"A","d","j"," ","C","l","o","s","e">>
Volume == <<"V","o","l","u","m","e">>
Date == <<"D","a","t","e">>
\* a column the provider may add and the normalizer does not know
Dividends == <<"D","i","v","i","d","e","n","d","s">>

\* line 17
COLS == <<Date, Open, High, Low, Close, AdjClose, Volume>>
\* the list literal of line 63
Recognized == <<Open, High, Low, Close, AdjClose, Volume>>

NoneFrame == [kind |-> "none", iname |-> <<>>, index |-> <<>>, columns |-> <<>>, col |-> <<>>]

\* DataFrame.empty: no rows or no columns
Empty(df) == Len(df.index) = 0 \/ Len(df.columns) = 0

\* the elements of seq that satisfy Keep, in order
RECURSIVE Filter(_, _)
Filter(seq, keepSet) ==
    IF seq = <<>> THEN <<>>
    ELSE IF Head(seq) \in keepSet THEN <<Head(seq)>> \o Filter(Tail(seq), keepSet)
    ELSE Filter(Tail(seq), keepSet)

\* df[ticker] on a two-level frame: the columns under level-0 key ticker
GetItem(df, ticker) ==
    LET keys  == Filter(df.columns, {c \in Range(df.columns) : c[1] = ticker})
        names == [k \in 1..Len(keys) |-> keys[k][2]]
    IN  [kind |-> "flat", iname |-> df.iname, index |-> df.index,
         columns |-> names,
         col |-> [n \in Range(names) |-> df.col[<<ticker, n>>]]]

\* df.xs(ticker, axis=1, level=1): the columns whose level-1 key is ticker
Xs(df, ticker) ==
    LET keys  == Filter(df.columns, {c \in Range(df.columns) : c[2] = ticker})
        names == [k \in 1..Len(keys) |-> keys[k][1]]
    IN  [kind |-> "flat", iname |-> df.iname, index |-> df.index,
         columns |-> names,
         col |-> [n \in Range(names) |-> df.col[<<n, ticker>>]]]

\* a faulty variant of lines 42-57 that looks the symbol up at level 0 only
SliceLevel0Only(df, ticker) ==
    IF df.kind = "none" \/ Empty(df) THEN NoneFrame
    ELSE IF df.kind = "multi"
    THEN IF ticker \in {c[1] : c \in Range(df.columns)} THEN GetItem(df, ticker)
         ELSE NoneFrame
    ELSE df

\* lines 42-57
slice_ticker_from_download(df, ticker) ==
    IF df.kind = "none" \/ Empty(df) THEN NoneFrame
    ELSE IF df.kind = "multi"
    THEN IF ticker \in {c[1] : c \in Range(df.columns)} THEN GetItem(df, ticker)
         ELSE IF ticker \in {c[2] : c \in Range(df.columns)} THEN Xs(df, ticker)
         ELSE NoneFrame
    ELSE df

(***************************************************************************)
(* The provider's response.  A logical table gives, for each symbol and    *)
(* field, the values by date; the provider returns it symbol-major         *)
(* (symbols at level 0), field-major (symbols at level 1), flat (the       *)
(* fields of its first symbol), or returns nothing.                        *)
(***************************************************************************)
\* all pairs <<a, b>>, a-major
RECURSIVE Cross(_, _)
Cross(as, bs) ==
    IF as = <<>> THEN <<>>
    ELSE [k \in 1..Len(bs) |-> <<Head(as), bs[k]>>] \o Cross(Tail(as), bs)

Outer(t) ==
    [kind |-> "multi", iname |-> t.iname, index |-> t.index,
     columns |-> Cross(t.syms, t.fields),
     col |-> [c \in Range(Cross(t.syms, t.fields)) |-> t.val[c]]]

Inner(t) ==
    [kind |-> "multi", iname |-> t.iname, index |-> t.index,
     columns |-> Cross(t.fields, t.syms),
     col |-> [c \in Range(Cross(t.fields, t.syms)) |-> t.val[<<c[2], c[1]>>]]]

Flat(t) ==
    [kind |-> "flat", iname |-> t.iname, index |-> t.index,
     columns |-> IF t.syms = <<>> THEN <<>> ELSE t.fields,
     col |-> IF t.syms = <<>> THEN <<>>
             ELSE [f \in Range(t.fields) |-> t.val[<<t.syms[1], f>>]]]

(***************************************************************************)
(* normalize_ohlcv, statement by statement, on a flat frame.               *)
(***************************************************************************)
Rows(df) == 1..Len(df.index)

\* a frame with one more column at the end
WithColumn(df, name, values) ==
    [df EXCEPT !.columns = Append(df.columns, name),
               !.col = [n \in Range(df.columns) \cup {name} |->
                           IF n = name THEN values ELSE df.col[n]]]

\* the rows of seq whose positions are in keepRows, in order
RECURSIVE TakeRows(_, _, _)
TakeRows(seq, keepRows, from) ==
    IF from > Len(seq) THEN <<>>
    ELSE IF from \in keepRows THEN <<seq[from]>> \o TakeRows(seq, keepRows, from + 1)
    ELSE TakeRows(seq, keepRows, from + 1)

\* lines 61-62
AddAdjClose(df) ==
    IF AdjClose \notin Range(df.columns) /\ Close \in Range(df.columns)
    THEN WithColumn(df, AdjClose, df.col[Close])
    ELSE df

\* a faulty variant of lines 63-64 that selects the columns and drops no row
KeepWithoutDropna(df) ==
    LET keep == Filter(Recognized, Range(df.columns))
    IN  [df EXCEPT !.columns = keep, !.col = [n \in Range(keep) |-> df.col[n]]]

\* lines 63-64: df_t[keep].dropna(how="any")
KeepDropna(df) ==
    LET keep  == Filter(Recognized, Range(df.columns))
        whole == {r \in Rows(df) : \A n \in Range(keep) : df.col[n][r] # NA}
    IN  [df EXCEPT !.index = TakeRows(df.index, whole, 1),
                   !.columns = keep,
                   !.col = [n \in Range(keep) |-> TakeRows(df.col[n], whole, 1)]]

\* the column reset_index() makes of an index: its name, "index" if unnamed
IndexColumnName(df) == IF df.iname = <<>> THEN <<"i","n","d","e","x">> ELSE df.iname

\* line 65: the index becomes the first column, the new index is 0..n-1
ResetIndex(df) ==
    LET name == IndexColumnName(df)
    IN  [df EXCEPT !.iname = <<>>,
                   !.index = [r \in Rows(df) |-> r - 1],
                   !.columns = <<name>> \o df.columns,
                   !.col = [n \in Range(df.columns) \cup {name} |->
                               IF n = name THEN df.index ELSE df.col[n]]]

\* lines 66-67
RenameDate(df) ==
    IF Lower(df.columns[1]) # Lower(Date)
    THEN LET old == df.columns[1]
         IN  [df EXCEPT !.columns = <<Date>> \o Tail(df.columns),
                        !.col = [n \in (Range(df.columns) \ {old}) \cup {Date} |->
                                    IF n = Date THEN df.col[old] ELSE df.col[n]]]
    ELSE df

\* lines 68-70
RECURSIVE FillFrom(_, _)
FillFrom(df, k) ==
    IF k > Len(COLS) THEN df
    ELSE IF COLS[k] \notin Range(df.columns)
    THEN FillFrom(WithColumn(df, COLS[k], [r \in Rows(df) |-> NA]), k + 1)
    ELSE FillFrom(df, k + 1)
FillMissing(df) == FillFrom(df, 1)

\* sort_values puts missing keys last and keeps the order of equal keys
DateBefore(d, a, b) ==
    \/ d[a] # NA /\ d[b] = NA
    \/ d[a] # NA /\ d[b] # NA /\ d[a] < d[b]
    \/ (d[a] = d[b]) /\ a < b

RECURSIVE SortRows(_, _)
SortRows(d, rows) ==
    IF rows = {} THEN <<>>
    ELSE LET m == CHOOSE a \in rows : \A b \in rows \ {a} : DateBefore(d, a, b)
         IN  <<m>> \o SortRows(d, rows \ {m})

\* lines 71-73: df_t[COLS], then sort_values("Date").reset_index(drop=True)
SelectSort(df) ==
    LET order == SortRows(df.col[Date], Rows(df))
    IN  [df EXCEPT !.columns = COLS,
                   !.col = [n \in Range(COLS) |-> [r \in Rows(df) |-> df.col[n][order[r]]]]]

\* lines 59-74
normalize_ohlcv(df_t) ==
    SelectSort(FillMissing(RenameDate(ResetIndex(KeepDropna(AddAdjClose(df_t))))))

(***************************************************************************)
(* The tables the model draws.  A cell holds a number that tells its       *)
(* symbol, field and date apart from every other cell's.                   *)
(***************************************************************************)
AllFields == Recognized \o <<Dividends>>

CellVal(si, f, d) == 100 * si + 10 * IndexIn(f, AllFields) + d

Asc(n) == [r \in 1..n |-> r]
Desc(n) == [r \in 1..n |-> n + 1 - r]

\* per symbol: every cell present ("full"), Low missing on the first date
\* ("holes"), or Low missing on every date ("allholes")
Qualities == {"full", "holes", "allholes"}

MkTable(syms, fields, iname, index, q) ==
    [absent |-> FALSE, syms |-> syms, fields |-> fields, iname |-> iname, index |-> index,
     val |-> [c \in Range(Cross(syms, fields)) |->
                [r \in 1..Len(index) |->
                    IF c[2] = Low /\ (q[c[1]] = "allholes" \/ (q[c[1]] = "holes" /\ r = 1))
                    THEN NA
                    ELSE CellVal(IndexIn(c[1], syms), c[2], index[r])]]]

AbsentTable ==
    [absent |-> TRUE, syms |-> <<>>, fields |-> <<>>, iname |-> <<>>, index |-> <<>>,
     val |-> <<>>]

\* what the provider returns for a table, in each arrangement
SymbolMajor(t) == IF t.absent THEN NoneFrame ELSE Outer(t)
FieldMajor(t) == IF t.absent THEN NoneFrame ELSE Inner(t)
SingleLevel(t) == IF t.absent THEN NoneFrame ELSE Flat(t)

\* a series for the normalizer: nulls[r] names the column missing in row r
MkSeries(cols, iname, index, nulls) ==
    [kind |-> "flat", iname |-> iname, index |-> index, columns |-> cols,
     col |-> [f \in Range(cols) |->
                [r \in 1..Len(index) |->
                    IF nulls[r] = f THEN NA ELSE CellVal(1, f, index[r])]]]

UnsetFrame == [kind |-> "unset", iname |-> <<>>, index |-> <<>>, columns |-> <<>>, col |-> <<>>]

(***************************************************************************)
(* The slicer applied to one logical table in its three arrangements.      *)
(***************************************************************************)
SliceSymbolMajor ==
    /\ sliceOuter = UnsetFrame
    /\ sliceOuter' = slice_ticker_from_download(SymbolMajor(sdf), ssym)
    /\ UNCHANGED <<sdf, ssym, sliceInner, sliceFlat>>
    /\ UNCHANGED <<parseVars, pipeVars, normVars>>

SliceFieldMajor ==
    /\ sliceInner = UnsetFrame
    /\ sliceInner' = slice_ticker_from_download(FieldMajor(sdf), ssym)
    /\ UNCHANGED <<sdf, ssym, sliceOuter, sliceFlat>>
    /\ UNCHANGED <<parseVars, pipeVars, normVars>>

SliceSingleLevel ==
    /\ sliceFlat = UnsetFrame
    /\ sliceFlat' = slice_ticker_from_download(SingleLevel(sdf), ssym)
    /\ UNCHANGED <<sdf, ssym, sliceOuter, sliceInner>>
    /\ UNCHANGED <<parseVars, pipeVars, normVars>>

SliceNext ==
    \/ SliceSymbolMajor
    \/ SliceFieldMajor
    \/ SliceSingleLevel

(***************************************************************************)
(* The normalizer, one statement per step.                                 *)
(***************************************************************************)
\* lines 61-62
NAddAdjClose ==
    /\ nstep = "adj_close"
    /\ ndf' = AddAdjClose(ndf)
    /\ nstep' = "keep_dropna"
    /\ UNCHANGED <<nin, parseVars, pipeVars, sliceVars>>

\* lines 63-64
NKeepDropna ==
    /\ nstep = "keep_dropna"
    /\ ndf' = KeepDropna(ndf)
    /\ nstep' = "reset_index"
    /\ UNCHANGED <<nin, parseVars, pipeVars, sliceVars>>

\* line 65
NResetIndex ==
    /\ nstep = "reset_index"
    /\ ndf' = ResetIndex(ndf)
    /\ nstep' = "rename"
    /\ UNCHANGED <<nin, parseVars, pipeVars, sliceVars>>

\* lines 66-67
NRenameDate ==
    /\ nstep = "rename"
    /\ ndf' = RenameDate(ndf)
    /\ nstep' = "fill"
    /\ UNCHANGED <<nin, parseVars, pipeVars, sliceVars>>

\* lines 68-70
NFillMissing ==
    /\ nstep = "fill"
    /\ ndf' = FillMissing(ndf)
    /\ nstep' = "select_sort"
    /\ UNCHANGED <<nin, parseVars, pipeVars, sliceVars>>

\* lines 71-74
NSelectSort ==
    /\ nstep = "select_sort"
    /\ ndf' = SelectSort(ndf)
    /\ nstep' = "done"
    /\ UNCHANGED <<nin, parseVars, pipeVars, sliceVars>>

NormNext ==
    \/ NAddAdjClose
    \/ NKeepDropna
    \/ NResetIndex
    \/ NRenameDate
    \/ NFillMissing
    \/ NSelectSort

(***************************************************************************)
(* The symbol mapper and the sheet names.                                  *)
(***************************************************************************)
\* lines 35-36, YF_SUFFIX being the variable suffix
to_yf_symbol(t) == IF suffix # <<>> /\ ~EndsWith(t, suffix) THEN t \o suffix ELSE t

\* the character class of line 39
BadSheetChars == {":", "\\", "/", "?", "*", "[", "]"}
\* the slice bound of line 40
SheetNameLimit == 31

\* lines 38-40
sanitize_sheet_name(name) ==
    LET clean == [k \in 1..Len(name) |-> IF name[k] \in BadSheetChars THEN "_" ELSE name[k]]
    IN  SubSeq(clean, 1, IF Len(clean) < SheetNameLimit THEN Len(clean) ELSE SheetNameLimit)

SummaryName == <<"S","U","M","M","A","R","Y">>

(***************************************************************************)
(* The workbook of pd.ExcelWriter(engine="openpyxl") in write mode: its    *)
(* sheets in creation order, each with the frames written to it.  A write  *)
(* to a sheet name the workbook already has goes into that sheet.          *)
(***************************************************************************)
HasSheet(wb, name) == \E k \in 1..Len(wb) : wb[k].name = name

to_excel(wb, name, what) ==
    IF HasSheet(wb, name)
    THEN [k \in 1..Len(wb) |->
            IF wb[k].name = name THEN [wb[k] EXCEPT !.writes = Append(@, what)] ELSE wb[k]]
    ELSE Append(wb, [name |-> name, writes |-> <<what>>])

DataWrite(orig, n) == [kind |-> "data", ticker |-> orig, rows |-> n]
SummaryWrite(n) == [kind |-> "summary", ticker |-> <<>>, rows |-> n]

(***************************************************************************)
(* download_and_write_excel.                                               *)
(***************************************************************************)
NoReturn == [returned |-> FALSE, excel |-> <<>>, summary |-> <<>>, skipped |-> <<>>]
IdleUi == [status |-> "info", message |-> "", offered |-> FALSE, download |-> <<>>,
           summary |-> <<>>, warning |-> <<>>]

YfSyms(ps) == [k \in 1..Len(ps) |-> ps[k][2]]

\* the distinct elements of a list, in order of first appearance
RECURSIVE Dedup(_)
Dedup(seq) ==
    IF seq = <<>> THEN <<>>
    ELSE LET front == Dedup(SubSeq(seq, 1, Len(seq) - 1))
             last  == seq[Len(seq)]
         IN  IF last \in Range(front) THEN front ELSE Append(front, last)

\* the button of line 145
PressButton ==
    /\ pc = "idle"
    /\ pc' = "strict"
    /\ UNCHANGED <<txt, lst, triedFallback, err, original_tickers, pipeVars>>
    /\ UNCHANGED <<sliceVars, normVars>>

\* a faulty variant of lines 78-81 without the check of line 80
MapSymbolsUnguarded ==
    /\ pc = "parsed"
    /\ pairs' = [k \in 1..Len(original_tickers) |->
                    <<original_tickers[k], to_yf_symbol(original_tickers[k])>>]
    /\ pc' = "fetch"
    /\ UNCHANGED <<txt, lst, triedFallback, err, original_tickers, suffix, fetchCalls, data,
                   i, summary_rows, skipped, sheets, ret, ui>>
    /\ UNCHANGED <<sliceVars, normVars>>

\* lines 78-81
MapSymbols ==
    /\ pc = "parsed"
    /\ LET ps == [k \in 1..Len(original_tickers) |->
                    <<original_tickers[k], to_yf_symbol(original_tickers[k])>>]
       IN  /\ pairs' = ps
           /\ IF YfSyms(ps) = <<>>
              THEN /\ pc' = "error"
                   /\ err' = "No tickers to download after mapping."
              ELSE /\ pc' = "fetch"
                   /\ UNCHANGED err
    /\ UNCHANGED <<txt, lst, triedFallback, original_tickers, suffix, fetchCalls, data, i,
                   summary_rows, skipped, sheets, ret, ui>>
    /\ UNCHANGED <<sliceVars, normVars>>

\* what yf.download may return for the symbols asked: nothing, a table
\* without rows, or a table of some of the symbols in one of its arrangements
PipeQualities == {"absent", "full", "allholes"}

Responses(syms) ==
    LET asked == Dedup(syms)
        table(q, index) ==
            MkTable(Filter(asked, {y \in Range(asked) : q[y] # "absent"}),
                    <<Open, High, Low, Close, Volume>>, Date, index, q)
        tables == {table(q, Asc(2)) : q \in [Range(asked) -> PipeQualities]}
        whole  == {table(q, Asc(2)) : q \in [Range(asked) -> {"absent", "full"}]}
        one(qual) == MkTable(<<asked[1]>>, <<Open, High, Low, Close, Volume>>, Date, Asc(2),
                             [y \in Range(asked) |-> qual])
    IN  {NoneFrame}
        \cup {Outer(table([y \in Range(asked) |-> "full"], <<>>))}
        \cup {Outer(t) : t \in tables}
        \cup {Inner(t) : t \in whole}
        \cup (IF asked = <<>> THEN {}
              ELSE {Flat(one(qual)) : qual \in {"full", "allholes"}})

\* lines 83-96: the one call of yf.download, returning
FetchReturns ==
    /\ pc = "fetch"
    /\ \E resp \in Responses(YfSyms(pairs)) :
          /\ data' = resp
          /\ fetchCalls' = Append(fetchCalls, [syms |-> YfSyms(pairs), outcome |-> "returned"])
    /\ pc' = "loop"
    /\ i' = 1
    /\ summary_rows' = <<>>
    /\ skipped' = <<>>
    /\ sheets' = <<>>
    /\ UNCHANGED <<txt, lst, triedFallback, err, original_tickers, suffix, pairs, ret, ui>>
    /\ UNCHANGED <<sliceVars, normVars>>

\* a faulty variant of lines 83-90 that swallows the failure and goes on
\* with no data
FetchRaisesSwallowed ==
    /\ pc = "fetch"
    /\ fetchCalls' = Append(fetchCalls, [syms |-> YfSyms(pairs), outcome |-> "raised"])
    /\ data' = NoneFrame
    /\ pc' = "loop"
    /\ i' = 1
    /\ summary_rows' = <<>>
    /\ skipped' = <<>>
    /\ sheets' = <<>>
    /\ UNCHANGED <<txt, lst, triedFallback, err, original_tickers, suffix, pairs, ret, ui>>
    /\ UNCHANGED <<sliceVars, normVars>>

\* lines 83-90: the call raising (network or provider failure)
FetchRaises ==
    /\ pc = "fetch"
    /\ fetchCalls' = Append(fetchCalls, [syms |-> YfSyms(pairs), outcome |-> "raised"])
    /\ pc' = "error"
    /\ err' = "download failed"
    /\ UNCHANGED <<txt, lst, triedFallback, original_tickers, suffix, pairs, data, i,
                   summary_rows, skipped, sheets, ret, ui>>
    /\ UNCHANGED <<sliceVars, normVars>>

\* lines 102-105
NoDataRow(orig, yf_sym) ==
    [original_ticker |-> orig, yf_symbol |-> yf_sym, rows |-> 0,
     first_date |-> NA, last_date |-> NA, note |-> "No data"]

\* a faulty variant of lines 111-114 with the note of the other branch
EmptyRowNoDataNote(orig, yf_sym) ==
    [original_ticker |-> orig, yf_symbol |-> yf_sym, rows |-> 0,
     first_date |-> NA, last_date |-> NA, note |-> "No data"]

\* lines 111-114
EmptyRow(orig, yf_sym) ==
    [original_ticker |-> orig, yf_symbol |-> yf_sym, rows |-> 0,
     first_date |-> NA, last_date |-> NA, note |-> "Empty after normalization"]

\* lines 122-129
SuccessRow(orig, yf_sym, df_norm) ==
    [original_ticker |-> orig, yf_symbol |-> yf_sym, rows |-> Len(df_norm.index),
     first_date |-> df_norm.col[Date][1],
     last_date |-> df_norm.col[Date][Len(df_norm.index)], note |-> ""]

\* a faulty variant of summary_rows.append(...) that inserts at the front
PrependRow(rows, row) == <<row>> \o rows

\* summary_rows.append(...) of lines 102, 111 and 122
AppendRow(rows, row) == Append(rows, row)

\* a variant of lines 101 and 110 that appends the original ticker
SkipEntryOriginal(orig, yf_sym) == orig

\* what skipped.append(...) of lines 101 and 110 appends
SkipEntry(orig, yf_sym) == yf_sym

\* lines 98-129: one iteration of the loop
LoopIteration ==
    /\ pc = "loop"
    /\ i <= Len(pairs)
    /\ LET orig   == pairs[i][1]
           yf_sym == pairs[i][2]
           df_t   == slice_ticker_from_download(data, yf_sym)
       IN  IF df_t.kind = "none" \/ Empty(df_t)
           THEN /\ skipped' = Append(skipped, SkipEntry(orig, yf_sym))
                /\ summary_rows' = AppendRow(summary_rows, NoDataRow(orig, yf_sym))
                /\ UNCHANGED sheets
           ELSE LET df_norm == normalize_ohlcv(df_t)
                IN  IF Empty(df_norm)
                    THEN /\ skipped' = Append(skipped, SkipEntry(orig, yf_sym))
                         /\ summary_rows' = AppendRow(summary_rows, EmptyRow(orig, yf_sym))
                         /\ UNCHANGED sheets
                    ELSE /\ sheets' = to_excel(sheets, sanitize_sheet_name(orig),
                                               DataWrite(orig, Len(df_norm.index)))
                         /\ summary_rows' =
                                AppendRow(summary_rows, SuccessRow(orig, yf_sym, df_norm))
                         /\ UNCHANGED skipped
    /\ i' = i + 1
    /\ UNCHANGED <<txt, pc, lst, triedFallback, err, original_tickers, suffix, pairs,
                   fetchCalls, data, ret, ui>>
    /\ UNCHANGED <<sliceVars, normVars>>

\* lines 131-138: the SUMMARY sheet and the return
WriteSummary ==
    /\ pc = "loop"
    /\ i > Len(pairs)
    /\ sheets' = to_excel(sheets, SummaryName, SummaryWrite(Len(summary_rows)))
    /\ ret' = [returned |-> TRUE, excel |-> sheets', summary |-> summary_rows,
               skipped |-> skipped]
    /\ pc' = "returned"
    /\ UNCHANGED <<txt, lst, triedFallback, err, original_tickers, suffix, pairs,
                   fetchCalls, data, i, summary_rows, skipped, ui>>
    /\ UNCHANGED <<sliceVars, normVars>>

\* lines 148-159: the handler after the call returned
HandlerSuccess ==
    /\ pc = "returned"
    /\ ui' = [status |-> "success", message |-> "", offered |-> TRUE,
              download |-> ret.excel,
              summary |-> SubSeq(ret.summary, 1,
                                 IF Len(ret.summary) < 20 THEN Len(ret.summary) ELSE 20),
              warning |-> ret.skipped]
    /\ pc' = "done"
    /\ UNCHANGED <<txt, lst, triedFallback, err, original_tickers, suffix, pairs,
                   fetchCalls, data, i, summary_rows, skipped, sheets, ret>>
    /\ UNCHANGED <<sliceVars, normVars>>

\* lines 160-161: the handler after the call raised
HandlerError ==
    /\ pc = "error"
    /\ ui' = [IdleUi EXCEPT !.status = "error", !.message = err]
    /\ pc' = "failed"
    /\ UNCHANGED <<txt, lst, triedFallback, err, original_tickers, suffix, pairs,
                   fetchCalls, data, i, summary_rows, skipped, sheets, ret>>
    /\ UNCHANGED <<sliceVars, normVars>>

PipeNext ==
    \/ PressButton
    \/ StrictParse
    \/ Fallback
    \/ CheckAndReturn
    \/ MapSymbols
    \/ FetchReturns
    \/ FetchRaises
    \/ LoopIteration
    \/ WriteSummary
    \/ HandlerSuccess
    \/ HandlerError

(***************************************************************************)
(* Initial states and specifications.                                      *)
(***************************************************************************)
SeqsUpTo(S, n) == UNION {[1..k -> S] : k \in 0..n}

Texts(forms, lists) ==
    {[form |-> f, elems |-> l] : f \in forms, l \in lists}
    \cup {[form |-> f, elems |-> <<>>] : f \in BareForms}

\* the elements a ticker-list text may list
ParsePool ==
    {StrElem(<<"a">>), StrElem(<<" ","a"," ">>), StrElem(<<"A">>), StrElem(<<"b">>),
     StrElem(<<"B","a">>), StrElem(<<" ">>), StrElem(<<>>), IntElem(7), IntElem(10)}

\* the raw tickers a pipeline run may find on the page, in page order
LongTicker == <<"L","/">> \o [k \in 1..SheetNameLimit |-> "M"]
PipeRaw ==
    <<SummaryName, <<" ","c","c">>, <<"a","/","b">>, <<"C","C",".","C","A">>, <<" ">>,
      <<"A","_","B">>, LongTicker>>
PipeLists ==
    {[k \in 1..Len(Filter(PipeRaw, S)) |-> StrElem(Filter(PipeRaw, S)[k])] :
        S \in {T \in SUBSET Range(PipeRaw) : Cardinality(T) <= MaxTickers}}

Suffixes == {<<>>, <<".","C","A">>}

ParseIdle ==
    /\ txt = [form |-> "empty", elems |-> <<>>]
    /\ pc = "off"
    /\ lst = <<>>
    /\ triedFallback = FALSE
    /\ err = ""
    /\ original_tickers = <<>>

PipeIdle ==
    /\ pairs = <<>>
    /\ fetchCalls = <<>>
    /\ data = UnsetFrame
    /\ i = 0
    /\ summary_rows = <<>>
    /\ skipped = <<>>
    /\ sheets = <<>>
    /\ ret = NoReturn
    /\ ui = IdleUi

SliceIdle ==
    /\ sdf = AbsentTable
    /\ ssym = <<>>
    /\ sliceOuter = UnsetFrame
    /\ sliceInner = UnsetFrame
    /\ sliceFlat = UnsetFrame

NormIdle ==
    /\ nin = NoneFrame
    /\ ndf = NoneFrame
    /\ nstep = "off"

\* a run of the application: the page and the suffix are the inputs
Init ==
    /\ txt \in Texts({"py_list", "py_dict_list", "html_sq"}, PipeLists)
    /\ suffix \in Suffixes
    /\ pc = "idle"
    /\ lst = <<>>
    /\ triedFallback = FALSE
    /\ err = ""
    /\ original_tickers = <<>>
    /\ PipeIdle
    /\ SliceIdle
    /\ NormIdle

Next == PipeNext

Spec == Init /\ [][Next]_vars

\* get_egx_tickers alone, on every text of up to MaxElems elements
ParseInit ==
    /\ txt \in Texts(ElemForms, SeqsUpTo(ParsePool, MaxElems))
    /\ suffix = <<>>
    /\ pc = "strict"
    /\ lst = <<>>
    /\ triedFallback = FALSE
    /\ err = ""
    /\ original_tickers = <<>>
    /\ PipeIdle
    /\ SliceIdle
    /\ NormIdle

SpecParse == ParseInit /\ [][ParseNext]_vars

\* the slicer alone
SlicePool == << <<"A","A","A">>, <<"B","B","B">>, <<"C","C",".","C","A">> >>
SliceAsked == Range(SlicePool) \cup {<<"Z","Z">>}
SliceTables ==
    {AbsentTable}
    \cup {MkTable(Filter(SlicePool, S), fields, Date, Asc(n), [y \in S |-> "full"]) :
            S \in SUBSET Range(SlicePool),
            fields \in {Recognized, <<Open, High, Low, Close, Volume>>, <<>>},
            n \in 0..MaxRows}

SliceInit ==
    /\ sdf \in SliceTables
    /\ ssym \in SliceAsked
    /\ sliceOuter = UnsetFrame
    /\ sliceInner = UnsetFrame
    /\ sliceFlat = UnsetFrame
    /\ suffix = <<>>
    /\ ParseIdle
    /\ PipeIdle
    /\ NormIdle

SpecSlice == SliceInit /\ [][SliceNext]_vars

\* the normalizer alone
NormColumnSets ==
    {Range(AllFields) \ R : R \in SUBSET {Open, Close, AdjClose, Volume, Dividends}}
NullChoices == {<<>>, Low, AdjClose, Dividends}
IndexNames == {Date, <<"D","a","t","e","t","i","m","e">>, <<"d","a","t","e">>, <<>>}
NormInputs ==
    UNION {{MkSeries(Filter(AllFields, cs), iname, index, nulls) :
                cs \in NormColumnSets,
                iname \in IndexNames,
                index \in {Asc(n), Desc(n)},
                nulls \in [1..n -> NullChoices]} : n \in 0..MaxRows}

NormInit ==
    /\ nin \in NormInputs
    /\ ndf = nin
    /\ nstep = "adj_close"
    /\ suffix = <<>>
    /\ ParseIdle
    /\ PipeIdle
    /\ SliceIdle

SpecNorm == NormInit /\ [][NormNext]_vars

(***************************************************************************)
(* Properties of get_egx_tickers (under SpecParse).                        *)
(***************************************************************************)
ParseErrorMessage == "Ticker list parsing failed or returned empty."

\* the elements of a list, coerced to str, trimmed and uppercased, less the
\* empty ones
CleanSet(l) == {Strip(Upper(PyStr(l[k]))) : k \in 1..Len(l)} \ {<<>>}

NoLowercase(s) == \A k \in 1..Len(s) : IndexIn(s[k], LowerLetters) = 0
Trimmed(s) == s = <<>> \/ (s[1] \notin Whitespace /\ s[Len(s)] \notin Whitespace)

\* C8: when get_egx_tickers returns, its result lists exactly the text's
\* elements after str(), trimming and uppercasing, without the empty ones,
\* each once, in strictly ascending lexicographic order; no element is
\* empty, untrimmed or holds a lowercase letter.
C8_TickersAreCleanSortedSet ==
    pc = "parsed" =>
        /\ Range(original_tickers) = CleanSet(txt.elems)
        /\ \A a, b \in 1..Len(original_tickers) :
              a < b => StrLess(original_tickers[a], original_tickers[b])
        /\ \A k \in 1..Len(original_tickers) :
              /\ original_tickers[k] # <<>>
              /\ Trimmed(original_tickers[k])
              /\ NoLowercase(original_tickers[k])

\* C8 witness: [' a ', 10, 'A'] came back as ['10', 'A']
C8_Witness ==
    /\ pc = "parsed"
    /\ txt.elems = <<StrElem(<<" ","a"," ">>), IntElem(10), StrElem(<<"A">>)>>
    /\ original_tickers = << <<"1","0">>, <<"A">> >>

StrictFailed == literal_eval(txt).kind # "list"
FallbackYields ==
    re_search(txt) /\ json_loads(txt).kind = "list" /\ json_loads(txt).val # <<>>
ParseOver == pc \in {"check", "parsed", "error"}

\* C10 as stated: the extraction is attempted whenever the strict parse
\* fails, a value that is no list counting as a failure, and the parse error
\* is raised only when both strategies yield nothing or an empty list.
C10_FallbackOnEveryStrictFailure ==
    /\ (ParseOver /\ StrictFailed) => triedFallback
    /\ (pc = "error" /\ err = ParseErrorMessage) => ~FallbackYields

\* C10 amended: the extraction is attempted exactly when the strict parse
\* raises; a parsed value that is no list becomes the empty list without the
\* extraction being attempted, so the parse error is raised for it even when
\* the text holds a bracketed list; the parse error is raised exactly when
\* the list left after these steps is empty.
C10_FallbackOnlyWhenStrictRaises ==
    /\ ParseOver => (triedFallback <=> literal_eval(txt).kind = "raise")
    /\ (ParseOver /\ literal_eval(txt).kind = "other") =>
          /\ lst = <<>>
          /\ pc = "error" => err = ParseErrorMessage
          /\ pc # "parsed"
    /\ (pc = "error" /\ err = ParseErrorMessage) =>
          /\ lst = <<>>
          /\ \/ literal_eval(txt).kind = "other"
             \/ literal_eval(txt).kind = "list" /\ txt.elems = <<>>
             \/ literal_eval(txt).kind = "raise" /\ ~FallbackYields
    /\ pc = "parsed" => lst # <<>>
    /\ (pc = "error" /\ err # ParseErrorMessage) =>
          /\ literal_eval(txt).kind = "raise"
          /\ re_search(txt)
          /\ json_loads(txt).kind = "raise"

\* C10 witness: a dict literal holding a bracketed list ended in the parse
\* error, the extraction never tried
C10_Witness ==
    /\ pc = "error"
    /\ err = ParseErrorMessage
    /\ txt.form = "py_dict_list"
    /\ txt.elems # <<>>
    /\ ~triedFallback

(***************************************************************************)
(* Properties of _slice_ticker_from_download (under SpecSlice).            *)
(***************************************************************************)
\* the series of a symbol, read off the logical table
SeriesOf(t, sym) ==
    [kind |-> "flat", iname |-> t.iname, index |-> t.index, columns |-> t.fields,
     col |-> [f \in Range(t.fields) |-> t.val[<<sym, f>>]]]

TableHasCells(t) == ~t.absent /\ t.syms # <<>> /\ t.fields # <<>> /\ t.index # <<>>

\* C9: for a non-empty two-level response the slicer returns the symbol's
\* series, the same with the symbols at level 0 as with the symbols at
\* level 1, and None for a symbol at neither level; for a non-empty
\* single-level response it returns the whole table.
C9_SliceSameInBothArrangements ==
    /\ (sliceOuter.kind # "unset" /\ sliceInner.kind # "unset") =>
          /\ sliceOuter.kind = sliceInner.kind
          /\ sliceOuter.kind = "flat" => sliceOuter = sliceInner
    /\ (TableHasCells(sdf) /\ ssym \in Range(sdf.syms)) =>
          /\ sliceOuter.kind # "unset" => sliceOuter = SeriesOf(sdf, ssym)
          /\ sliceInner.kind # "unset" => sliceInner = SeriesOf(sdf, ssym)
    /\ (TableHasCells(sdf) /\ ssym \notin Range(sdf.syms)) =>
          /\ sliceOuter.kind \in {"unset", "none"}
          /\ sliceInner.kind \in {"unset", "none"}
    /\ (TableHasCells(sdf) /\ sliceFlat.kind # "unset") =>
          sliceFlat = SeriesOf(sdf, sdf.syms[1])
    /\ ~TableHasCells(sdf) =>
          /\ sliceOuter.kind \in {"unset", "none"}
          /\ sliceInner.kind \in {"unset", "none"}
          /\ sliceFlat.kind \in {"unset", "none"}

\* C9 witness: the second of three symbols sliced out of both arrangements
\* of a table with rows, with the same series
C9_Witness ==
    /\ Len(sdf.syms) = 3
    /\ ssym = sdf.syms[2]
    /\ Len(sdf.index) >= 2
    /\ sliceOuter.kind = "flat"
    /\ sliceInner = sliceOuter
    /\ sliceOuter.columns = Recognized

(***************************************************************************)
(* Properties of normalize_ohlcv (under SpecNorm).                         *)
(***************************************************************************)
\* the fields the normalizer keeps of an input: those it has, and Adj Close
\* when it has Close
KeptFields(df) ==
    (Range(Recognized) \cap Range(df.columns))
    \cup (IF Close \in Range(df.columns) THEN {AdjClose} ELSE {})

\* the value the normalizer reads for a kept field in a row of the input
InputValue(df, f, r) ==
    IF f \in Range(df.columns) THEN df.col[f][r] ELSE df.col[Close][r]

WholeRows(df) == {r \in Rows(df) : \A f \in KeptFields(df) : InputValue(df, f, r) # NA}

\* the index is named "date" in another letter case than "Date"
IndexNameMiscased(df) == Lower(df.iname) = Lower(Date) /\ df.iname # Date

\* C4 as stated: no output row has a null in any of the seven columns.
C4_NoNullField ==
    nstep = "done" =>
        \A r \in Rows(ndf) : \A c \in Range(COLS) : ndf.col[c][r] # NA

\* C4 amended: the output keeps exactly the input rows that have a value in
\* every kept field, in ascending date order; each output row has a value in
\* every kept field, a null placeholder in every field column the input
\* lacks altogether, and its index value as Date (a null placeholder when
\* the index is named "date" in another letter case than "Date").
C4_NoNullInKeptFields ==
    nstep = "done" =>
        /\ ndf.columns = COLS
        /\ Len(ndf.index) = Cardinality(WholeRows(nin))
        /\ \A r \in Rows(ndf) :
              /\ \A f \in KeptFields(nin) : ndf.col[f][r] # NA
              /\ \A f \in Range(Recognized) \ KeptFields(nin) : ndf.col[f][r] = NA
              /\ IF IndexNameMiscased(nin)
                 THEN ndf.col[Date][r] = NA
                 ELSE \E q \in WholeRows(nin) :
                         /\ ndf.col[Date][r] = nin.index[q]
                         /\ \A f \in KeptFields(nin) :
                               ndf.col[f][r] = InputValue(nin, f, q)
        /\ ~IndexNameMiscased(nin) =>
              \A a, b \in Rows(ndf) : a < b => ndf.col[Date][a] < ndf.col[Date][b]

\* C4 witness: of two rows the one without Low was dropped, and the Volume
\* column the input lacks is a null placeholder in the row that was kept
C4_Witness ==
    /\ nstep = "done"
    /\ Len(nin.index) = 2
    /\ Len(ndf.index) = 1
    /\ Low \in Range(nin.columns)
    /\ \E r \in Rows(nin) : nin.col[Low][r] = NA
    /\ Volume \notin Range(nin.columns)
    /\ ndf.col[Volume][1] = NA
    /\ ndf.col[Low][1] # NA
    /\ ndf.col[Date][1] # NA

(***************************************************************************)
(* Properties of a run of the pipeline (under Spec).                       *)
(***************************************************************************)
\* the outcome of the k-th pair, from the response and its provider symbol
OutcomeOf(k) ==
    LET df_t == slice_ticker_from_download(data, pairs[k][2])
    IN  IF df_t.kind = "none" \/ Len(df_t.index) = 0 \/ Len(df_t.columns) = 0
        THEN "NoData"
        ELSE IF Len(normalize_ohlcv(df_t).index) = 0
        THEN "EmptyAfterNormalization"
        ELSE "Success"

Returned == pc \in {"returned", "done"}

\* C1: every row of the summary a run returns carries the note of its
\* pair's outcome: "No data" when the slice is absent or empty, "Empty after
\* normalization" when the slice is not empty and normalizes to no rows, ""
\* otherwise; rows is 0 for the first two and the number of normalized rows
\* for the third.
C1_RowMatchesOutcome ==
    pc = "returned" =>
        \A k \in 1..Len(ret.summary) :
            LET row  == ret.summary[k]
                df_t == slice_ticker_from_download(data, pairs[k][2])
                void == df_t.kind = "none" \/ Len(df_t.index) = 0 \/ Len(df_t.columns) = 0
                n    == IF void THEN 0 ELSE Len(normalize_ohlcv(df_t).index)
            IN  /\ k <= Len(pairs)
                /\ row.original_ticker = pairs[k][1]
                /\ row.yf_symbol = pairs[k][2]
                /\ row.note \in {"No data", "Empty after normalization", ""}
                /\ row.note = "No data" <=> void
                /\ row.note = "Empty after normalization" <=> (~void /\ n = 0)
                /\ row.note = "" <=> (~void /\ n > 0)
                /\ row.rows = n

\* C1 witness: a finished run whose summary holds all three outcomes
C1_Witness ==
    /\ pc = "done"
    /\ \E a, b, c \in 1..Len(summary_rows) :
          /\ summary_rows[a].note = "No data"
          /\ summary_rows[b].note = "Empty after normalization"
          /\ summary_rows[c].note = "" /\ summary_rows[c].rows = 2

\* C2: the summary a run returns has one row per parsed ticker, in the
\* order of the parsed ticker list, whatever the outcomes.
C2_SummaryFollowsTickerOrder ==
    /\ Returned =>
          /\ ret.returned
          /\ Len(ret.summary) = Len(original_tickers)
          /\ \A k \in 1..Len(ret.summary) :
                ret.summary[k].original_ticker = original_tickers[k]
    /\ pc = "loop" =>
          /\ Len(summary_rows) = i - 1
          /\ \A k \in 1..Len(summary_rows) :
                summary_rows[k].original_ticker = original_tickers[k]

\* C2 witness: three tickers, the first without data, the second empty
\* after normalization, the third a success, and three rows in that order
C2_Witness ==
    /\ pc = "done"
    /\ Len(original_tickers) = 3
    /\ Len(ret.summary) = 3
    /\ ret.summary[1].note = "No data"
    /\ ret.summary[2].note = "Empty after normalization"
    /\ ret.summary[3].note = ""

\* the entries of the skip list for the first k pairs: the ticker itself or
\* its provider symbol, for every pair that is no Success
RECURSIVE SkipsUpTo(_, _)
SkipsUpTo(k, asProviderSymbol) ==
    IF k = 0 THEN <<>>
    ELSE SkipsUpTo(k - 1, asProviderSymbol) \o
         (IF OutcomeOf(k) = "Success" THEN <<>>
          ELSE IF asProviderSymbol THEN <<to_yf_symbol(original_tickers[k])>>
          ELSE <<original_tickers[k]>>)

\* C3 as stated: the skip list is the original tickers, as they appear in
\* the source list, whose outcome is no Success, in input order.
C3_SkipListOfOriginalTickers ==
    pc = "returned" => ret.skipped = SkipsUpTo(Len(original_tickers), FALSE)

\* C3 amended: the skip list is the provider symbols of the tickers whose
\* outcome is no Success, in input order; it is the list of those original
\* tickers when the suffix is empty.
C3_SkipListOfProviderSymbols ==
    pc = "returned" =>
        /\ ret.skipped = SkipsUpTo(Len(original_tickers), TRUE)
        /\ suffix = <<>> => ret.skipped = SkipsUpTo(Len(original_tickers), FALSE)

\* C3 witness: a finished run with a suffix whose skip list names a provider
\* symbol that is no ticker of the source list
C3_Witness ==
    /\ pc = "done"
    /\ suffix # <<>>
    /\ Len(ret.skipped) = 2
    /\ \E k \in 1..Len(ret.skipped) : ret.skipped[k] \notin Range(original_tickers)

\* C5: the bulk fetch is called at most once; not before parsing and mapping
\* are done; once, with the provider symbols of all parsed tickers, none
\* left out, before the first ticker is sliced; and never in a run whose
\* parse failed or whose symbol list is empty.
C5_OneFetchOfAllSymbols ==
    /\ Len(fetchCalls) <= 1
    /\ pc \in {"idle", "strict", "fallback", "check", "parsed", "fetch"} => fetchCalls = <<>>
    /\ pc = "fetch" => pairs # <<>>
    /\ fetchCalls # <<>> =>
          /\ fetchCalls[1].syms # <<>>
          /\ fetchCalls[1].syms =
                [k \in 1..Len(original_tickers) |-> to_yf_symbol(original_tickers[k])]
    /\ (pc \in {"loop", "returned", "done"} \/ i > 0 \/ summary_rows # <<>> \/ sheets # <<>>)
          => Len(fetchCalls) = 1
    /\ pc \in {"error", "failed"} =>
          (Len(fetchCalls) = 1 <=> (original_tickers # <<>> /\ err = "download failed"))
    /\ (pc \in {"error", "failed"} /\ (err = ParseErrorMessage \/ original_tickers = <<>>))
          => fetchCalls = <<>>

\* C5 witness: a finished run of three tickers with its one call
C5_Witness ==
    /\ pc = "done"
    /\ Len(original_tickers) = 3
    /\ Len(fetchCalls) = 1
    /\ Len(fetchCalls[1].syms) = 3
    /\ Len(summary_rows) = 3

\* the page yields no ticker list
ParseFails == txt.form \notin {"py_list", "html_sq", "html_dq"} \/ txt.elems = <<>>
AfterParse == pc \notin {"idle", "strict", "fallback", "check"}

\* C6: a parse failure, an empty symbol list and a failed fetch each end the
\* run in the error outcome; in it nothing was returned, no sheet, summary
\* row or skip entry exists, and the handler shows the error message alone:
\* no download, no summary, no skip notice.
C6_FatalErrorLeavesNothing ==
    /\ pc \in {"error", "failed"} =>
          /\ err # ""
          /\ ret = NoReturn
          /\ sheets = <<>> /\ summary_rows = <<>> /\ skipped = <<>>
          /\ ~ui.offered /\ ui.download = <<>> /\ ui.summary = <<>> /\ ui.warning = <<>>
    /\ pc = "failed" => (ui.status = "error" /\ ui.message = err)
    /\ (AfterParse /\ ParseFails) => pc \in {"error", "failed"}
    /\ (pc \notin {"idle", "strict", "fallback", "check", "parsed"} /\ original_tickers = <<>>)
          => pc \in {"error", "failed"}
    /\ (\E k \in 1..Len(fetchCalls) : fetchCalls[k].outcome = "raised")
          => (pc \in {"error", "failed"} /\ err = "download failed")
    /\ (ret.returned \/ ui.offered) => pc \in {"returned", "done"}

\* C6 witness: the fetch raised and the handler showed its error
C6_Witness ==
    /\ pc = "failed"
    /\ Len(fetchCalls) = 1
    /\ fetchCalls[1].outcome = "raised"
    /\ ui.status = "error"
    /\ ui.message = "download failed"

SuccessTickers == {pairs[k][1] : k \in {j \in 1..Len(pairs) : OutcomeOf(j) = "Success"}}

\* C7: the workbook a run returns holds one data sheet per Success ticker
\* and none for another ticker, named by the ticker with each of
\* : \ / ? * [ ] replaced by _ and cut to 31 characters, and no sheet is
\* shared: every sheet received one write, the SUMMARY sheet the summary's.
C7_OneSheetPerSuccessTicker ==
    Returned =>
        /\ Len(ret.excel) = Cardinality(SuccessTickers) + 1
        /\ \A k \in 1..Len(ret.excel) :
              /\ Len(ret.excel[k].writes) = 1
              /\ Len(ret.excel[k].name) <= SheetNameLimit
              /\ \A c \in Range(ret.excel[k].name) : c \notin BadSheetChars
              /\ ret.excel[k].writes[1].kind = "summary" <=> ret.excel[k].name = SummaryName
              /\ ret.excel[k].writes[1].kind = "data" =>
                    /\ ret.excel[k].writes[1].ticker \in SuccessTickers
                    /\ ret.excel[k].name = sanitize_sheet_name(ret.excel[k].writes[1].ticker)
        /\ \A t \in SuccessTickers :
              \E k \in 1..Len(ret.excel) :
                  /\ ret.excel[k].writes[1].kind = "data"
                  /\ ret.excel[k].writes[1].ticker = t

====
